---- MODULE Spec2Model ----
(***************************************************************************)
(* Model of analyze_keywords.py: the tokenizer, the aggregator with its    *)
(* frequency tables, the category name lookup and the run of main().       *)
(*                                                                         *)
(* A Python str is a sequence of one-character strings, so that lower(),   *)
(* re.sub() and split() are modelled by what they do to the characters.    *)
(***************************************************************************)
EXTENDS Integers, Sequences, FiniteSets, TLC

VARIABLES
    text,            \* extract_keywords_from_text: argument text
    min_length,      \* extract_keywords_from_text: argument min_length
    keywords,        \* extract_keywords_from_text: the returned list
    pc,              \* main: the statement main() is at
    all_videos,      \* main: the records collected so far
    all_keywords,    \* analyze_videos: the pooled title and description tokens
    all_tags,        \* analyze_videos: the pooled normalized tags
    keyword_counts,  \* main: Counter of all_keywords
    tag_counts,      \* main: Counter of all_tags
    categories,      \* main: Counter of category ids
    exception,       \* the exception that ended the run, or "none"
    api_key,         \* main: the key get_api_key() returned
    page,            \* main: the loop variable of the recent-videos loop
    page_token,      \* main: the local page_token
    cat_index,       \* main: position in categories.most_common(10), from 1
    printed,         \* main: the category lines printed
    top_categories,  \* main: results['top_categories'] as built so far
    report_file,     \* the file written, NoFile before
    outcome,         \* how the run ended, "running" before
    num_pages,       \* the API: how many pages of search results there are
    calls,           \* history: the collection calls made, in order
    last_lookup      \* history: the last call of get_category_name

tokvars == <<text, min_length, keywords>>
aggvars == <<all_keywords, all_tags, keyword_counts, tag_counts, categories>>
repvars == <<cat_index, printed, top_categories, report_file, last_lookup>>
colvars == <<api_key, page, page_token, num_pages, calls>>

vars == <<tokvars, pc, all_videos, aggvars, exception, repvars, colvars, outcome>>

---------------------------------------------------------------------------
(* Bounds of the model *)

MaxTextLen == 4
MaxMinLength == 3
MaxVideos == 3
MaxVideosAnyFields == 2
MaxTopN == 3
MaxPages == 2

---------------------------------------------------------------------------
(* Python values *)

\* None; a one-element tuple holding a string that is no character, so that
\* it compares with every str of the model and equals none of them.
None == <<"None">>

Lowers == <<"a","b","c","d","e","f","g","h","i","j","k","l","m",
            "n","o","p","q","r","s","t","u","v","w","x","y","z">>
Uppers == <<"A","B","C","D","E","F","G","H","I","J","K","L","M",
            "N","O","P","Q","R","S","T","U","V","W","X","Y","Z">>
Digits == {"0","1","2","3","4","5","6","7","8","9"}

Range(s) == {s[i] : i \in DOMAIN s}

UpperChars == Range(Uppers)
WordChars == Range(Lowers) \cup Range(Uppers) \cup Digits \cup {"_"}

\* the class \w of re (letters, digits, underscore)
IsWordChar(c) == c \in WordChars

\* the class \s of re, which is also what str.split() splits on
IsSpaceChar(c) == c \in {" ", "\t", "\n"}

\* str.lower() on one character
LowerChar(c) ==
    IF c \in UpperChars
    THEN Lowers[CHOOSE i \in DOMAIN Uppers : Uppers[i] = c]
    ELSE c

\* text.lower()
StrLower(s) == [i \in DOMAIN s |-> LowerChar(s[i])]

\* re.sub(r'[^\w\s]', ' ', text)
ReSubNonWord(s) ==
    [i \in DOMAIN s |-> IF IsWordChar(s[i]) \/ IsSpaceChar(s[i]) THEN s[i] ELSE " "]

\* text.split(): the maximal runs of non-whitespace characters, in order.
\* acc is the list of finished words, cur the word being read.
RECURSIVE SplitFrom(_, _, _, _)
SplitFrom(s, i, acc, cur) ==
    IF i > Len(s)
    THEN IF cur = <<>> THEN acc ELSE Append(acc, cur)
    ELSE IF IsSpaceChar(s[i])
         THEN SplitFrom(s, i + 1, IF cur = <<>> THEN acc ELSE Append(acc, cur), <<>>)
         ELSE SplitFrom(s, i + 1, acc, Append(cur, s[i]))

StrSplit(s) == SplitFrom(s, 1, <<>>, <<>>)

STOP_WORDS == {
    <<"t","h","e">>, <<"a">>, <<"a","n">>, <<"a","n","d">>, <<"o","r">>, <<"b","u","t">>,
    <<"i","n">>, <<"o","n">>, <<"a","t">>, <<"t","o">>, <<"f","o","r">>, <<"o","f">>,
    <<"w","i","t","h">>, <<"b","y">>, <<"f","r","o","m">>, <<"a","s">>, <<"i","s">>,
    <<"w","a","s">>, <<"a","r","e">>, <<"b","e","e","n">>, <<"b","e">>, <<"h","a","v","e">>,
    <<"h","a","s">>, <<"h","a","d">>, <<"d","o">>, <<"d","o","e","s">>, <<"d","i","d">>,
    <<"w","i","l","l">>, <<"w","o","u","l","d">>, <<"s","h","o","u","l","d">>,
    <<"c","o","u","l","d">>, <<"m","a","y">>, <<"m","i","g","h","t">>, <<"m","u","s","t">>,
    <<"c","a","n">>, <<"t","h","i","s">>, <<"t","h","a","t">>, <<"t","h","e","s","e">>,
    <<"t","h","o","s","e">>, <<"i">>, <<"y","o","u">>, <<"h","e">>, <<"s","h","e">>,
    <<"i","t">>, <<"w","e">>, <<"t","h","e","y">>, <<"t","h","e","m">>,
    <<"t","h","e","i","r">>, <<"w","h","a","t">>, <<"w","h","i","c","h">>, <<"w","h","o">>,
    <<"w","h","e","n">>, <<"w","h","e","r","e">>, <<"w","h","y">>, <<"h","o","w">>,
    <<"a","l","l">>, <<"e","a","c","h">>, <<"e","v","e","r","y">>, <<"b","o","t","h">>,
    <<"f","e","w">>, <<"m","o","r","e">>, <<"m","o","s","t">>, <<"o","t","h","e","r">>,
    <<"s","o","m","e">>, <<"s","u","c","h">>, <<"n","o">>, <<"n","o","t">>,
    <<"o","n","l","y">>, <<"o","w","n">>, <<"s","a","m","e">>, <<"s","o">>,
    <<"t","h","a","n">>, <<"t","o","o">>, <<"v","e","r","y">>, <<"s">>, <<"t">>,
    <<"j","u","s","t">>, <<"n","o","w">>, <<"t","h","a","n">>, <<"m","y">>,
    <<"y","o","u","r">>, <<"o","u","r">>, <<"l","i","k","e">>, <<"g","e","t">>,
    <<"g","o","t">>, <<"n","e","w">>, <<"o","u","t">>, <<"u","p">>, <<"d","o","w","n">>,
    <<"o","v","e","r">>, <<"a","f","t","e","r">>, <<"b","e","f","o","r","e">>,
    <<"i","n","t","o">>, <<"t","h","r","o","u","g","h">>, <<"d","u","r","i","n","g">>
}

\* mutant: a word must be longer than the minimum
KeepWordStrict(word, min_len) == Len(word) > min_len /\ word \notin STOP_WORDS

\* the comprehension's condition
KeepWord(word, min_len) == Len(word) >= min_len /\ word \notin STOP_WORDS

extract_keywords_from_text(txt, min_len) ==
    IF txt = None \/ txt = <<>>
    THEN <<>>
    ELSE LET lowered == StrLower(txt)
             cleaned == ReSubNonWord(lowered)
             words   == StrSplit(cleaned)
         IN  SelectSeq(words, LAMBDA word : KeepWord(word, min_len))

---------------------------------------------------------------------------
(* Values of the variables a run has not touched *)

EmptyDict == [k \in {} |-> 0]

\* no report file on disk
NoFile == EmptyDict

\* get_category_name not called yet
NoLookup == EmptyDict

\* None where a dict is expected
NoneDict == [None |-> TRUE]

NoTables ==
    /\ all_keywords = <<>> /\ all_tags = <<>>
    /\ keyword_counts = <<>> /\ tag_counts = <<>> /\ categories = <<>>

NoRun ==
    /\ exception = "none" /\ outcome = "running"
    /\ api_key = "" /\ page = 0 /\ page_token = None
    /\ cat_index = 1 /\ printed = <<>> /\ top_categories = <<>>
    /\ report_file = NoFile /\ last_lookup = NoLookup
    /\ num_pages = 0 /\ calls = <<>>

---------------------------------------------------------------------------
(* The tokenizer applied to every text of the bounded alphabet *)

\* a letter, an upper-case letter, an underscore, a punctuation mark, a blank
TextChars == {"a", "l", "L", "_", "'", " "}

RECURSIVE TextsOfLen(_)
TextsOfLen(n) ==
    IF n = 0 THEN {<<>>}
    ELSE {Append(t, c) : t \in TextsOfLen(n - 1), c \in TextChars}

Texts == UNION {TextsOfLen(n) : n \in 0..MaxTextLen} \cup {None}

InitTok ==
    /\ text \in Texts
    /\ min_length \in 0..MaxMinLength
    /\ keywords = <<>>
    /\ pc = "tokenize"
    /\ all_videos = <<>>
    /\ NoTables
    /\ NoRun

ExtractKeywords ==
    /\ pc = "tokenize"
    /\ keywords' = extract_keywords_from_text(text, min_length)
    /\ pc' = "tokenized"
    /\ UNCHANGED <<text, min_length, all_videos, aggvars, exception, repvars,
                   colvars, outcome>>

SpecTok == InitTok /\ [][ExtractKeywords]_vars

---------------------------------------------------------------------------
(* dict and collections.Counter *)

\* mutant: d[key], which raises KeyError for an absent key
DictSubscript(d, key, default) ==
    [ok |-> key \in DOMAIN d, val |-> IF key \in DOMAIN d THEN d[key] ELSE default]

\* d.get(key, default): the value read, and whether the read succeeded (ok is
\* FALSE when the access raises KeyError, which .get never does)
DictGet(d, key, default) ==
    [ok |-> TRUE, val |-> IF key \in DOMAIN d THEN d[key] ELSE default]

\* A Counter is the sequence of its <<key, count>> items in insertion order,
\* the order in which a dict iterates.
CounterHas(c, key) == \E i \in DOMAIN c : c[i][1] = key

CounterGet(c, key) ==
    IF CounterHas(c, key)
    THEN c[CHOOSE i \in DOMAIN c : c[i][1] = key][2]
    ELSE 0

CounterKeys(c) == {c[i][1] : i \in DOMAIN c}

\* mutant: c[key] = 1
CounterSetOne(c, key) ==
    IF CounterHas(c, key) THEN c ELSE Append(c, <<key, 1>>)

\* c[key] += 1
CounterInc(c, key) ==
    IF CounterHas(c, key)
    THEN LET i == CHOOSE j \in DOMAIN c : c[j][1] = key
         IN  [c EXCEPT ![i] = <<key, c[i][2] + 1>>]
    ELSE Append(c, <<key, 1>>)

\* Counter(iterable)
RECURSIVE CounterFrom(_, _)
CounterFrom(c, list) ==
    IF list = <<>> THEN c
    ELSE CounterFrom(CounterInc(c, Head(list)), Tail(list))

Counter(list) == CounterFrom(<<>>, list)

\* mutant: an unstable sort, the later of two equal counts placed first
InsertByCountUnstable(sorted, item) ==
    LET p == Cardinality({i \in DOMAIN sorted : sorted[i][2] > item[2]})
    IN  SubSeq(sorted, 1, p) \o <<item>> \o SubSeq(sorted, p + 1, Len(sorted))

\* one step of the stable sort by count, largest first: item goes after
\* every item already placed whose count is not smaller
InsertByCount(sorted, item) ==
    LET p == Cardinality({i \in DOMAIN sorted : sorted[i][2] >= item[2]})
    IN  SubSeq(sorted, 1, p) \o <<item>> \o SubSeq(sorted, p + 1, Len(sorted))

RECURSIVE SortByCount(_, _)
SortByCount(sorted, items) ==
    IF items = <<>> THEN sorted
    ELSE SortByCount(InsertByCount(sorted, Head(items)), Tail(items))

\* Counter.most_common(n): sorted(items, key=count, reverse=True)[:n]
most_common(c, n) ==
    LET sorted == SortByCount(<<>>, c)
    IN  SubSeq(sorted, 1, IF n < Len(sorted) THEN n ELSE Len(sorted))

---------------------------------------------------------------------------
(* analyze_videos *)

DefaultMinLength == 3

\* the sizes of the lists main prints and of those it writes
TopKeywords == 30
TopTags == 30
TopCategories == 10
ReportKeywords == 50
ReportTags == 50

\* mutant: tags put through the keyword filter
NormalizeTagsFiltered(tags) ==
    SelectSeq([i \in DOMAIN tags |-> StrLower(tags[i])],
              LAMBDA tag : KeepWord(tag, DefaultMinLength))

\* [tag.lower() for tag in tags]
NormalizeTags(tags) == [i \in DOMAIN tags |-> StrLower(tags[i])]

\* mutant: the description is not tokenized
AnalyzeVideoTitleOnly(acc, video) ==
    LET snippet     == DictGet(video, "snippet", EmptyDict)
        title       == DictGet(snippet.val, "title", <<>>)
        tags        == DictGet(snippet.val, "tags", <<>>)
        category_id == DictGet(snippet.val, "categoryId", "Unknown")
    IN  [all_keywords |-> acc.all_keywords
                            \o extract_keywords_from_text(title.val, DefaultMinLength),
         all_tags     |-> IF tags.val # <<>>
                          THEN acc.all_tags \o NormalizeTags(tags.val)
                          ELSE acc.all_tags,
         categories   |-> CounterInc(acc.categories, category_id.val),
         raised       |-> acc.raised]

\* the body of the loop over videos; acc holds the function's locals
AnalyzeVideo(acc, video) ==
    LET snippet     == DictGet(video, "snippet", EmptyDict)
        title       == DictGet(snippet.val, "title", <<>>)
        description == DictGet(snippet.val, "description", <<>>)
        tags        == DictGet(snippet.val, "tags", <<>>)
        category_id == DictGet(snippet.val, "categoryId", "Unknown")
        title_keywords       == extract_keywords_from_text(title.val, DefaultMinLength)
        description_keywords == extract_keywords_from_text(description.val, DefaultMinLength)
    IN  [all_keywords |-> acc.all_keywords \o title_keywords \o description_keywords,
         all_tags     |-> IF tags.val # <<>>
                          THEN acc.all_tags \o NormalizeTags(tags.val)
                          ELSE acc.all_tags,
         categories   |-> CounterInc(acc.categories, category_id.val),
         raised       |-> \/ acc.raised
                          \/ ~snippet.ok \/ ~title.ok \/ ~description.ok
                          \/ ~tags.ok \/ ~category_id.ok]

RECURSIVE AnalyzeLoop(_, _)
AnalyzeLoop(acc, videos) ==
    IF videos = <<>> THEN acc
    ELSE AnalyzeLoop(AnalyzeVideo(acc, Head(videos)), Tail(videos))

\* the three tables returned, with the locals they are counted from
analyze_videos(videos) ==
    LET acc == AnalyzeLoop([all_keywords |-> <<>>, all_tags |-> <<>>,
                            categories |-> <<>>, raised |-> FALSE], videos)
    IN  [all_keywords   |-> acc.all_keywords,
         all_tags       |-> acc.all_tags,
         keyword_counts |-> Counter(acc.all_keywords),
         tag_counts     |-> Counter(acc.all_tags),
         categories     |-> acc.categories,
         raised         |-> acc.raised]

---------------------------------------------------------------------------
(* Video records *)

S_AmazingNewTrickRevealed == <<"A","m","a","z","i","n","g"," ","N","e","w"," ","T","r","i","c","k"," ","R","e","v","e","a","l","e","d">>
S_AmazingTrickTutorial == <<"A","m","a","z","i","n","g"," ","T","r","i","c","k"," ","T","u","t","o","r","i","a","l">>
S_TheTrick == <<"T","h","e"," ","T","r","i","c","k">>
S_ItsAmazing == <<"i","t","'","s"," ","A","M","A","Z","I","N","G">>
S_funny == <<"f","u","n","n","y">>
S_Funny == <<"F","u","n","n","y">>
S_the == <<"t","h","e">>
S_OK == <<"O","K">>
S_ok == <<"o","k">>
S_amazing == <<"a","m","a","z","i","n","g">>
S_trick == <<"t","r","i","c","k">>
S_revealed == <<"r","e","v","e","a","l","e","d">>
S_tutorial == <<"t","u","t","o","r","i","a","l">>

\* the two records of the end-to-end scenario
Record1 ==
    [snippet |-> [title |-> S_AmazingNewTrickRevealed,
                  tags |-> <<S_funny, S_funny>>, categoryId |-> "10"]]
Record2 ==
    [snippet |-> [title |-> S_AmazingTrickTutorial,
                  tags |-> <<S_Funny>>, categoryId |-> "10"]]

\* a record with every field, and the records that lack some of its fields
FullSnippet ==
    [title |-> S_TheTrick, description |-> S_ItsAmazing,
     tags |-> <<S_the, S_OK>>, categoryId |-> "22"]

SnippetFields == {"title", "description", "tags", "categoryId"}

PartialRecord(present) == [snippet |-> [k \in present |-> FullSnippet[k]]]

FullRecord == PartialRecord(SnippetFields)

\* the full record, the records lacking one field, all four, or the snippet
CoreRecords ==
    {Record1, Record2, FullRecord, EmptyDict, PartialRecord({})}
        \cup {PartialRecord(SnippetFields \ {f}) : f \in SnippetFields}

\* every subset of the four fields absent
VideoRecords ==
    {Record1, Record2, EmptyDict} \cup {PartialRecord(p) : p \in SUBSET SnippetFields}

RECURSIVE ListsOfLen(_, _)
ListsOfLen(S, n) ==
    IF n = 0 THEN {<<>>}
    ELSE {Append(l, x) : l \in ListsOfLen(S, n - 1), x \in S}

---------------------------------------------------------------------------
(* main: the call of analyze_videos *)

AnalyzeVideos ==
    /\ pc = "analyze"
    /\ LET r == analyze_videos(all_videos)
       IN  /\ all_keywords' = r.all_keywords
           /\ all_tags' = r.all_tags
           /\ keyword_counts' = r.keyword_counts
           /\ tag_counts' = r.tag_counts
           /\ categories' = r.categories
           /\ exception' = IF r.raised THEN "KeyError" ELSE "none"
           /\ outcome' = IF r.raised THEN "exception" ELSE outcome
           /\ pc' = IF r.raised THEN "done" ELSE "print"
    /\ cat_index' = 1
    /\ UNCHANGED <<tokvars, all_videos, printed, top_categories, report_file,
                   last_lookup, colvars>>

\* analyze_videos applied to every list of up to MaxVideos records
InitAgg ==
    /\ text = None /\ min_length = DefaultMinLength /\ keywords = <<>>
    /\ pc = "analyze"
    /\ all_videos \in
           UNION {ListsOfLen(CoreRecords, n) : n \in 0..MaxVideos}
             \cup UNION {ListsOfLen(VideoRecords, n) : n \in 0..MaxVideosAnyFields}
    /\ NoTables
    /\ NoRun

SpecAgg == InitAgg /\ [][AnalyzeVideos]_vars

---------------------------------------------------------------------------
(* HTTP responses and the API *)

\* requests.get() raised, or raise_for_status() did: a RequestException
ConnectionError == [status |-> "ConnectionError"]
HTTPError == [status |-> "HTTPError"]

\* a 200 whose body is JSON, and one whose body is not (json() raises ValueError)
OkResponse(body) == [status |-> "ok", json |-> TRUE, body |-> body]
NotJsonResponse == [status |-> "ok", json |-> FALSE]

\* what a request may get: the body the API has for it, or a failure
Replies(body) == {OkResponse(body), ConnectionError, HTTPError}

\* a video resource: the record with its id
WithId(video, id) ==
    [k \in DOMAIN video \cup {"id"} |-> IF k = "id" THEN id ELSE video[k]]

\* the mostPopular chart, when it is not empty
TrendingFeed ==
    <<WithId(Record2, <<"t", 1>>),
      WithId(PartialRecord(SnippetFields \ {"categoryId"}), <<"t", 2>>)>>

\* page p of the search results holds one video, and the token of page p + 1
\* unless it is the last of the n pages
PageToken(p) == <<"page", p>>

SearchBody(token, n) ==
    LET p == IF token = None THEN 1 ELSE token[2]
        items == << [id |-> [videoId |-> <<"s", p>>]] >>
    IN  IF p > n THEN [items |-> <<>>]
        ELSE IF p < n THEN [items |-> items, nextPageToken |-> PageToken(p + 1)]
        ELSE [items |-> items]

VideoById(id) == WithId(IF id[2] % 2 = 1 THEN FullRecord ELSE Record1, id)

VideosBody(ids) == [items |-> [i \in DOMAIN ids |-> VideoById(ids[i])]]

\* the videoCategories resource
CategoryTitles == [c \in {"10", "22"} |-> IF c = "10" THEN <<"Music">>
                                          ELSE <<"People", "&", "Blogs">>]

CategoryBody(category_id) ==
    IF category_id \in DOMAIN CategoryTitles
    THEN [items |-> << [snippet |-> [title |-> CategoryTitles[category_id]]] >>]
    ELSE [items |-> <<>>]

\* the answers get_category_name may get: the API's, a failure of the
\* transport, or a body that is not what the API documents
CategoryReplies(category_id) ==
    Replies(CategoryBody(category_id))
        \cup {NotJsonResponse, OkResponse(EmptyDict), OkResponse([items |-> <<>>]),
              OkResponse([items |-> <<EmptyDict>>]),
              OkResponse([items |-> << [snippet |-> EmptyDict] >>])}

---------------------------------------------------------------------------
(* The collectors *)

\* `if x` for a dict that may be None
Truthy(d) == d # NoneDict /\ DOMAIN d # {}

\* d[key] = value
DictSet(d, key, value) ==
    [k \in DOMAIN d \cup {key} |-> IF k = key THEN value ELSE d[k]]

\* d.get('items') where only its truth and its elements are used: None and
\* [] are both false
DictItems(d) == DictGet(d, "items", <<>>).val

fetch_trending_videos(response) ==
    IF response.status # "ok" THEN NoneDict ELSE response.body

\* [item['id']['videoId'] for item in data.get('items', [])]
VideoIds(data) ==
    LET items == DictGet(data, "items", <<>>).val
    IN  [i \in DOMAIN items |-> items[i].id.videoId]

\* mutant: a failed hydration call is swallowed and the search result returned
search_recent_videos_unhydrated(response, videos_response) ==
    IF response.status # "ok" THEN NoneDict
    ELSE LET data == response.body
         IN  IF VideoIds(data) # <<>> /\ videos_response.status = "ok"
             THEN DictSet(videos_response.body, "nextPageToken",
                          DictGet(data, "nextPageToken", None).val)
             ELSE data

\* response answers the search request, videos_response the request for the
\* details of the videos found
search_recent_videos(response, videos_response) ==
    IF response.status # "ok" THEN NoneDict
    ELSE LET data == response.body
             video_ids == VideoIds(data)
         IN  IF video_ids # <<>>
             THEN IF videos_response.status # "ok" THEN NoneDict
                  ELSE DictSet(videos_response.body, "nextPageToken",
                               DictGet(data, "nextPageToken", None).val)
             ELSE data

---------------------------------------------------------------------------
(* get_category_name *)

\* f'Category {category_id}'
CategoryLabel(category_id) == <<"Category", category_id>>

\* mutant: the fields are read with .get(), so a body without them gives None
get_category_name_unchecked(category_id, response) ==
    IF response.status # "ok" \/ ~response.json
    THEN CategoryLabel(category_id)
    ELSE LET items == DictItems(response.body)
         IN  IF items # <<>>
             THEN DictGet(DictGet(items[1], "snippet", EmptyDict).val, "title", None).val
             ELSE CategoryLabel(category_id)

\* the try block returns the title; whatever it raises (a RequestException,
\* json()'s ValueError, a KeyError of the subscripts) is swallowed and the
\* label returned
get_category_name(category_id, response) ==
    IF response.status # "ok" THEN CategoryLabel(category_id)
    ELSE IF ~response.json THEN CategoryLabel(category_id)
    ELSE LET items == DictItems(response.body)
         IN  IF items # <<>>
             THEN IF /\ "snippet" \in DOMAIN items[1]
                     /\ "title" \in DOMAIN items[1].snippet
                  THEN items[1].snippet.title
                  ELSE CategoryLabel(category_id)
             ELSE CategoryLabel(category_id)

---------------------------------------------------------------------------
(* main *)

pages_to_fetch == 3

\* the local page_token at the call of search_recent_videos: the loop body
\* starts by setting it to None
LoopPageToken(previous) == None

\* mutant: `if all_videos is None`
AllVideosIsNone(videos) == FALSE

\* not all_videos
NoVideos(videos) == videos = <<>>

\* api_key = get_api_key(): the environment's key, or the line typed
GetApiKey ==
    /\ pc = "start"
    /\ \E key \in {"", "KEY"} :
          /\ api_key' = key
          /\ pc' = IF key = "" THEN "done" ELSE "trending"
          /\ outcome' = IF key = "" THEN "no_api_key" ELSE outcome
    /\ UNCHANGED <<tokvars, all_videos, aggvars, exception, repvars, page,
                   page_token, num_pages, calls>>

FetchTrending ==
    /\ pc = "trending"
    /\ \E feed \in {<<>>, TrendingFeed} : \E response \in Replies([items |-> feed]) :
          LET trending_data == fetch_trending_videos(response)
          IN  /\ all_videos' = IF Truthy(trending_data) /\ DictItems(trending_data) # <<>>
                               THEN all_videos \o DictItems(trending_data)
                               ELSE all_videos
              /\ calls' = Append(calls, [call |-> "trending", page_token |-> None,
                                         failed |-> response.status # "ok",
                                         available |-> feed, next |-> None])
    /\ page' = 0
    /\ pc' = "search"
    /\ UNCHANGED <<tokvars, aggvars, exception, repvars, api_key, page_token,
                   num_pages, outcome>>

\* one pass of the body of `for page in range(pages_to_fetch)`
SearchPage ==
    /\ pc = "search"
    /\ page < pages_to_fetch
    /\ LET token == LoopPageToken(page_token)
           body  == SearchBody(token, num_pages)
       IN  \E response \in Replies(body) :
           \E videos_response \in Replies(VideosBody(VideoIds(body))) :
              LET recent_data == search_recent_videos(response, videos_response)
                  fetched == Truthy(recent_data) /\ DictItems(recent_data) # <<>>
                  next == DictGet(recent_data, "nextPageToken", None).val
              IN  /\ all_videos' = IF fetched
                                   THEN all_videos \o DictItems(recent_data)
                                   ELSE all_videos
                  /\ page_token' = IF fetched THEN next ELSE token
                  /\ pc' = IF fetched /\ next = None THEN "check" ELSE "search"
                  /\ page' = IF fetched /\ next = None THEN page ELSE page + 1
                  /\ calls' = Append(calls,
                        [call |-> "search", page_token |-> token,
                         failed |-> response.status # "ok"
                                      \/ (VideoIds(body) # <<>> /\ videos_response.status # "ok"),
                         available |-> VideosBody(VideoIds(body)).items,
                         next |-> DictGet(body, "nextPageToken", None).val])
    /\ UNCHANGED <<tokvars, aggvars, exception, repvars, api_key, num_pages, outcome>>

\* the loop has run pages_to_fetch times
SearchLoopEnd ==
    /\ pc = "search"
    /\ page = pages_to_fetch
    /\ pc' = "check"
    /\ UNCHANGED <<tokvars, all_videos, aggvars, exception, repvars, colvars, outcome>>

\* if not all_videos: print the error and return
CheckCollected ==
    /\ pc = "check"
    /\ pc' = IF NoVideos(all_videos) THEN "done" ELSE "analyze"
    /\ outcome' = IF NoVideos(all_videos) THEN "no_data" ELSE outcome
    /\ UNCHANGED <<tokvars, all_videos, aggvars, exception, repvars, colvars>>

\* percentage = (count / len(all_videos)) * 100, kept as the exact ratio
Percentage(count, total) == <<count * 100, total>>

\* one pass of the loop printing the top categories
PrintCategory ==
    /\ pc = "print"
    /\ LET top == most_common(categories, TopCategories)
       IN  IF cat_index > Len(top)
           THEN /\ pc' = "build"
                /\ cat_index' = 1
                /\ UNCHANGED <<printed, last_lookup>>
           ELSE \E response \in CategoryReplies(top[cat_index][1]) :
                   LET category_id == top[cat_index][1]
                       count == top[cat_index][2]
                       category_name == get_category_name(category_id, response)
                   IN  /\ printed' = Append(printed,
                             [category_id |-> category_id, category_name |-> category_name,
                              count |-> count,
                              percentage |-> Percentage(count, Len(all_videos))])
                       /\ last_lookup' = [category_id |-> category_id,
                                          response |-> response, name |-> category_name]
                       /\ cat_index' = cat_index + 1
                       /\ pc' = pc
    /\ UNCHANGED <<tokvars, all_videos, aggvars, exception, top_categories,
                   report_file, colvars, outcome>>

\* one element of the comprehension building results['top_categories']
BuildCategory ==
    /\ pc = "build"
    /\ LET top == most_common(categories, TopCategories)
       IN  IF cat_index > Len(top)
           THEN /\ pc' = "write"
                /\ UNCHANGED <<cat_index, top_categories, last_lookup>>
           ELSE \E response \in CategoryReplies(top[cat_index][1]) :
                   LET cat_id == top[cat_index][1]
                       count == top[cat_index][2]
                       category_name == get_category_name(cat_id, response)
                   IN  /\ top_categories' = Append(top_categories,
                             [category_id |-> cat_id, category_name |-> category_name,
                              count |-> count,
                              percentage |-> Percentage(count, Len(all_videos))])
                       /\ last_lookup' = [category_id |-> cat_id,
                                          response |-> response, name |-> category_name]
                       /\ cat_index' = cat_index + 1
                       /\ pc' = pc
    /\ UNCHANGED <<tokvars, all_videos, aggvars, exception, printed, report_file,
                   colvars, outcome>>

\* json.dump(results, f); generated_at, the clock's reading, is left out
WriteReport ==
    /\ pc = "write"
    /\ report_file' =
          [total_videos_analyzed |-> Len(all_videos),
           period |-> "Past 30 days",
           top_keywords |-> most_common(keyword_counts, ReportKeywords),
           top_tags |-> most_common(tag_counts, ReportTags),
           top_categories |-> top_categories]
    /\ pc' = "done"
    /\ outcome' = "report"
    /\ UNCHANGED <<tokvars, all_videos, aggvars, exception, cat_index, printed,
                   top_categories, last_lookup, colvars>>

Init ==
    /\ text = None /\ min_length = DefaultMinLength /\ keywords = <<>>
    /\ pc = "start"
    /\ all_videos = <<>>
    /\ NoTables
    /\ exception = "none" /\ outcome = "running"
    /\ api_key = "" /\ page = 0 /\ page_token = None
    /\ cat_index = 1 /\ printed = <<>> /\ top_categories = <<>>
    /\ report_file = NoFile /\ last_lookup = NoLookup
    /\ num_pages \in 0..MaxPages
    /\ calls = <<>>

Next ==
    \/ GetApiKey
    \/ FetchTrending
    \/ SearchPage
    \/ SearchLoopEnd
    \/ CheckCollected
    \/ AnalyzeVideos
    \/ PrintCategory
    \/ BuildCategory
    \/ WriteReport

Spec == Init /\ [][Next]_vars

---------------------------------------------------------------------------
(* Properties of the tokenizer *)

\* the maximal runs of word characters of t, as <<first, last>> positions
WordRuns(t) ==
    {r \in (DOMAIN t) \X (DOMAIN t) :
        /\ r[1] <= r[2]
        /\ \A k \in r[1]..r[2] : IsWordChar(t[k])
        /\ (r[1] = 1 \/ ~IsWordChar(t[r[1] - 1]))
        /\ (r[2] = Len(t) \/ ~IsWordChar(t[r[2] + 1]))}

\* the runs that are long enough and are no stop word
KeptRuns(t, min_len) ==
    {r \in WordRuns(t) :
        /\ r[2] - r[1] + 1 >= min_len
        /\ SubSeq(t, r[1], r[2]) \notin STOP_WORDS}

\* C2: extract_keywords_from_text returns, in input order and with
\* duplicates, exactly the maximal runs of word characters of the lowercased
\* text that have the minimum length and are no stop word; so every token is
\* long enough and no stop word, and an empty or None text gives no token.
TokenizerReturnsKeptRuns ==
    pc = "tokenized" =>
        LET t    == IF text = None THEN <<>> ELSE StrLower(text)
            kept == KeptRuns(t, min_length)
        IN  /\ Len(keywords) = Cardinality(kept)
            /\ \A r \in kept :
                  keywords[Cardinality({q \in kept : q[1] < r[1]}) + 1]
                      = SubSeq(t, r[1], r[2])
            /\ \A i \in DOMAIN keywords :
                  Len(keywords[i]) >= min_length /\ keywords[i] \notin STOP_WORDS
            /\ (text \in {None, <<>>} => keywords = <<>>)

\* "a'Ll" with minimum 1: the stop word "a" is dropped, "ll" is kept
TokenizerWitness ==
    /\ pc = "tokenized"
    /\ text = <<"a", "'", "L", "l">>
    /\ min_length = 1
    /\ keywords = << <<"l", "l">> >>

---------------------------------------------------------------------------
(* Properties of the aggregator *)

\* analyze_videos has been called
Analyzed ==
    \/ pc \in {"print", "build", "write"}
    \/ (pc = "done" /\ outcome \in {"report", "exception"})

Occurrences(list, x) == Cardinality({i \in DOMAIN list : list[i] = x})

HasField(video, f) == "snippet" \in DOMAIN video /\ f \in DOMAIN video.snippet

\* the tokens of a record's title and description
RecordKeywords(video) ==
    (IF HasField(video, "title")
     THEN extract_keywords_from_text(video.snippet.title, DefaultMinLength)
     ELSE <<>>)
    \o (IF HasField(video, "description")
        THEN extract_keywords_from_text(video.snippet.description, DefaultMinLength)
        ELSE <<>>)

\* a record's tags, lowercased
RecordTags(video) ==
    IF HasField(video, "tags")
    THEN [i \in DOMAIN video.snippet.tags |-> StrLower(video.snippet.tags[i])]
    ELSE <<>>

RecordCategory(video) ==
    IF HasField(video, "categoryId") THEN video.snippet.categoryId ELSE "Unknown"

RECURSIVE SumOver(_, _)
SumOver(f, S) ==
    IF S = {} THEN 0
    ELSE LET x == CHOOSE y \in S : TRUE IN f[x] + SumOver(f, S \ {x})

\* a Counter is a mapping: no key twice, no key with count 0
IsTable(c) ==
    /\ \A i, j \in DOMAIN c : c[i][1] = c[j][1] => i = j
    /\ \A i \in DOMAIN c : c[i][2] >= 1

\* C1: the keyword table maps each token to the number of times it occurs in
\* the tokens of the titles and the descriptions of all records, and has no
\* other key; the two titles of the scenario give amazing 2, trick 2,
\* revealed 1, tutorial 1.
KeywordTableCountsTokens ==
    Analyzed =>
        LET total(k) ==
                SumOver([i \in DOMAIN all_videos |->
                            Occurrences(RecordKeywords(all_videos[i]), k)],
                        DOMAIN all_videos)
            tokens == UNION {Range(RecordKeywords(all_videos[i])) : i \in DOMAIN all_videos}
        IN  /\ IsTable(keyword_counts)
            /\ CounterKeys(keyword_counts) = tokens
            /\ \A k \in tokens : CounterGet(keyword_counts, k) = total(k)
            /\ (all_videos = <<Record1, Record2>> =>
                  Range(keyword_counts) = {<<S_amazing, 2>>, <<S_trick, 2>>,
                                           <<S_revealed, 1>>, <<S_tutorial, 1>>})

\* title and description pooled: "trick" from a title twice and "amazing"
\* from a title and a description
KeywordTableWitness ==
    /\ Analyzed
    /\ all_videos = <<Record1, FullRecord>>
    /\ CounterGet(keyword_counts, S_trick) = 2
    /\ CounterGet(keyword_counts, S_amazing) = 2
    /\ CounterGet(keyword_counts, S_revealed) = 1

\* C3: the tag table counts each tag of each record under its lowercased
\* form and nothing else: tags differing in case share a key, and no tag is
\* dropped for being short or a stop word.
TagTableCountsLoweredTags ==
    Analyzed =>
        LET total(k) ==
                SumOver([i \in DOMAIN all_videos |->
                            Occurrences(RecordTags(all_videos[i]), k)],
                        DOMAIN all_videos)
            tags == UNION {Range(RecordTags(all_videos[i])) : i \in DOMAIN all_videos}
        IN  /\ IsTable(tag_counts)
            /\ CounterKeys(tag_counts) = tags
            /\ \A k \in tags : CounterGet(tag_counts, k) = total(k)
            /\ (all_videos = <<Record1, Record2>> => tag_counts = << <<S_funny, 3>> >>)

\* "funny", "funny", "Funny" share the key funny; "the" and "OK" are counted
TagTableWitness ==
    /\ Analyzed
    /\ all_videos = <<Record1, Record2, FullRecord>>
    /\ CounterGet(tag_counts, S_funny) = 3
    /\ CounterGet(tag_counts, S_the) = 1
    /\ CounterGet(tag_counts, S_ok) = 1

RemoveAt(list, i) == SubSeq(list, 1, i - 1) \o SubSeq(list, i + 1, Len(list))

MissingFields(video) == {f \in SnippetFields : ~HasField(video, f)}

\* table c is table rest with each element of list counted once more
AddsTo(c, rest, list) ==
    /\ IsTable(c)
    /\ \A k \in CounterKeys(c) \cup CounterKeys(rest) \cup Range(list) :
          CounterGet(c, k) = CounterGet(rest, k) + Occurrences(list, k)

\* C4: analyze_videos does not raise on a record lacking fields: an absent
\* title or description adds no keyword, absent tags add no tag, an absent
\* categoryId adds exactly one to "Unknown", and what the other records
\* contribute is what they contribute without that record.
MissingFieldsAreTolerated ==
    Analyzed =>
        \A i \in DOMAIN all_videos :
            LET video == all_videos[i]
                rest  == analyze_videos(RemoveAt(all_videos, i))
            IN  MissingFields(video) # {} =>
                    /\ exception = "none"
                    /\ AddsTo(keyword_counts, rest.keyword_counts, RecordKeywords(video))
                    /\ AddsTo(tag_counts, rest.tag_counts, RecordTags(video))
                    /\ AddsTo(categories, rest.categories, <<RecordCategory(video)>>)
                    /\ ("categoryId" \in MissingFields(video) =>
                          CounterGet(categories, "Unknown")
                              = CounterGet(rest.categories, "Unknown") + 1)

\* a record with no field at all between two full ones
MissingFieldsWitness ==
    /\ Analyzed
    /\ all_videos = <<Record1, PartialRecord({}), FullRecord>>
    /\ exception = "none"
    /\ categories = << <<"10", 1>>, <<"Unknown", 1>>, <<"22", 1>> >>

\* the position at which key is first met in the stream
FirstMet(stream, key) == CHOOSE i \in DOMAIN stream :
    stream[i] = key /\ \A j \in 1..(i - 1) : stream[j] # key

\* top is sorted by count, largest first, equal counts in the order first met
RankedByCountThenFirstMet(top, stream) ==
    \A i, j \in DOMAIN top :
        i < j => \/ top[i][2] > top[j][2]
                 \/ /\ top[i][2] = top[j][2]
                    /\ FirstMet(stream, top[i][1]) < FirstMet(stream, top[j][1])

TopSizes == (0..MaxTopN) \cup {TopKeywords, TopTags, TopCategories, ReportKeywords, ReportTags}

\* C5: for each of the three tables and every N, most_common(N) is sorted by
\* non-increasing count, and keys with equal counts come in the order in
\* which they were first met in the input, not in alphabetical order.
TopNRankedByCountThenFirstMet ==
    Analyzed =>
        \A n \in TopSizes :
            /\ RankedByCountThenFirstMet(most_common(keyword_counts, n), all_keywords)
            /\ RankedByCountThenFirstMet(most_common(tag_counts, n), all_tags)
            /\ RankedByCountThenFirstMet(
                   most_common(categories, n),
                   [i \in DOMAIN all_videos |-> RecordCategory(all_videos[i])])

\* "22" met before "10" with equal counts, "trick" before "amazing"; the
\* record met last has the largest count
TopNWitness ==
    /\ Analyzed
    /\ all_videos = <<FullRecord, Record1, EmptyDict>>
    /\ most_common(categories, TopCategories) = << <<"22", 1>>, <<"10", 1>>, <<"Unknown", 1>> >>
    /\ most_common(keyword_counts, 2) = << <<S_trick, 2>>, <<S_amazing, 2>> >>
    /\ most_common(tag_counts, 3) = << <<S_funny, 2>>, <<S_the, 1>>, <<S_ok, 1>> >>

\* table whole holds, per key, the sum of the counts of tables a and b
IsSumOf(whole, a, b) ==
    /\ IsTable(whole)
    /\ CounterKeys(whole) = CounterKeys(a) \cup CounterKeys(b)
    /\ \A k \in CounterKeys(whole) :
          CounterGet(whole, k) = CounterGet(a, k) + CounterGet(b, k)

\* C6: for every split of the list into two consecutive batches, the per-key
\* sums of the three tables of the batches are the three tables of the list.
BatchesMergeBySumming ==
    Analyzed =>
        \A n \in 0..Len(all_videos) :
            LET a == analyze_videos(SubSeq(all_videos, 1, n))
                b == analyze_videos(SubSeq(all_videos, n + 1, Len(all_videos)))
            IN  /\ IsSumOf(keyword_counts, a.keyword_counts, b.keyword_counts)
                /\ IsSumOf(tag_counts, a.tag_counts, b.tag_counts)
                /\ IsSumOf(categories, a.categories, b.categories)

\* [r1, r2] then [r3], with keys shared between the batches
BatchesWitness ==
    /\ Analyzed
    /\ all_videos = <<Record1, Record2, Record1>>
    /\ analyze_videos(<<Record1, Record2>>).categories = << <<"10", 2>> >>
    /\ analyze_videos(<<Record1>>).categories = << <<"10", 1>> >>
    /\ categories = << <<"10", 3>> >>
    /\ CounterGet(keyword_counts, S_amazing) = 3

---------------------------------------------------------------------------
(* Properties of the run of main *)

RECURSIVE Concat(_)
Concat(lists) ==
    IF lists = <<>> THEN <<>> ELSE Head(lists) \o Concat(Tail(lists))

SearchCalls == SelectSeq(calls, LAMBDA c : c.call = "search")

\* the collection is over
Collected == pc \notin {"start", "trending", "search"} /\ api_key # ""

\* C7: a call that fails contributes no record and the records of the other
\* calls are kept; the calls after it are still made (the loop of searches
\* ends early only after a search that succeeded with no next page); and the
\* run goes on to the aggregation when a record was collected.
FailedCallContributesNothing ==
    /\ all_videos =
          Concat([i \in DOMAIN calls |->
                    IF calls[i].failed THEN <<>> ELSE calls[i].available])
    /\ Collected =>
          /\ calls # <<>> /\ calls[1].call = "trending"
          /\ \/ Len(SearchCalls) = pages_to_fetch
             \/ /\ SearchCalls # <<>>
                /\ LET last == SearchCalls[Len(SearchCalls)]
                   IN  ~last.failed /\ last.available # <<>> /\ last.next = None
    /\ (Collected /\ all_videos # <<>> => pc # "done" \/ outcome = "report")
    /\ (Collected /\ all_videos # <<>> /\ pc # "check" /\ pc # "analyze" => Analyzed)

\* the trending call and the first and the last search fail, the second
\* search succeeds, and the report is written from its one record
FailedCallWitness ==
    /\ pc = "done" /\ outcome = "report"
    /\ Len(calls) = 4
    /\ calls[1].failed /\ calls[2].failed /\ ~calls[3].failed /\ calls[4].failed
    /\ Len(all_videos) = 1
    /\ report_file.total_videos_analyzed = 1

\* C8: with no record collected the run ends in the "no data" outcome, and
\* the aggregation is not performed, no category name looked up and no
\* report written; the report is written only when a record was collected.
NoRecordsNoReport ==
    /\ (all_videos = <<>> =>
          /\ ~Analyzed
          /\ pc # "analyze"
          /\ last_lookup = NoLookup /\ printed = <<>> /\ top_categories = <<>>
          /\ report_file = NoFile)
    /\ (Collected /\ all_videos = <<>> /\ pc = "done" => outcome = "no_data")
    /\ (report_file # NoFile => all_videos # <<>>)

\* every collection call was made and none gave a record
NoRecordsWitness ==
    /\ pc = "done" /\ outcome = "no_data"
    /\ Len(calls) = 1 + pages_to_fetch
    /\ \E i \in DOMAIN calls : calls[i].failed
    /\ \E i \in DOMAIN calls : ~calls[i].failed
    /\ all_videos = <<>> /\ report_file = NoFile

\* the lookup has no title to return: the request failed, the body is not
\* JSON, or it has no first item with a snippet title
LookupFailed(response) ==
    \/ response.status # "ok"
    \/ ~response.json
    \/ "items" \notin DOMAIN response.body
    \/ response.body.items = <<>>
    \/ "snippet" \notin DOMAIN response.body.items[1]
    \/ "title" \notin DOMAIN response.body.items[1].snippet

\* the names a list of category lines may give: for each id its title or its label
NamesAreOwn(lines) ==
    \A i \in DOMAIN lines :
        \/ lines[i].category_name = CategoryLabel(lines[i].category_id)
        \/ /\ lines[i].category_id \in DOMAIN CategoryTitles
           /\ lines[i].category_name = CategoryTitles[lines[i].category_id]

SearchCallsFollowPages ==
    /\ Len(SearchCalls) <= pages_to_fetch
    /\ \A i \in DOMAIN SearchCalls :
          \A j \in 1..(i - 1) :
              (~SearchCalls[j].failed /\ \A k \in (j + 1)..(i - 1) : SearchCalls[k].failed)
                  => SearchCalls[i].page_token = SearchCalls[j].next
    /\ \A i, j \in DOMAIN SearchCalls :
          (/\ i # j
           /\ ~SearchCalls[i].failed /\ SearchCalls[i].available # <<>>
           /\ ~SearchCalls[j].failed /\ SearchCalls[j].available # <<>>)
              => SearchCalls[i].page_token # SearchCalls[j].page_token

====
